---- MODULE Spec2Model ----
(***************************************************************************)
(* A model of tcmu-runner's per-device recovery / lock state machine       *)
(* (tcmur_device.c) and of the SCSI emulation helpers of api.c (iovec      *)
(* copies, MODE SENSE / MODE SELECT, READ CAPACITY).                       *)
(***************************************************************************)
EXTENDS Integers, Sequences, FiniteSets, TLC

(***************************************************************************)
(* Bounds of the device state machine.                                     *)
(***************************************************************************)
NumCallers == 2
MaxRecTasks == 2
MaxLockTasks == 1

Callers == {"c"} \X (1..NumCallers)
RecTasks == {"r"} \X (1..MaxRecTasks)
LockTasks == {"l"} \X (1..MaxLockTasks)
Tasks == RecTasks \cup LockTasks
Threads == Callers \cup Tasks
NoThread == <<"none", 0>>

(* struct tcmur_device: flag bits and lock states *)
IN_RECOVERY == "IN_RECOVERY"
SHUTTING_DOWN == "SHUTTING_DOWN"
IS_OPEN == "IS_OPEN"
UNLOCKED == "UNLOCKED"
LOCKING == "LOCKING"
LOCKED == "LOCKED"

VARIABLES
    flags,            \* rdev->flags, a set of flag bits
    lock_state,       \* rdev->lock_state
    state_lock,       \* rdev->state_lock: the thread holding it, or NoThread
    recovery_thread,  \* rdev->recovery_thread: the last handle pthread_create stored
    lock_thread,      \* rdev->lock_thread
    pc,               \* every thread's position
    ret,              \* every thread's local variable "ret"
    joined,           \* the tasks whose pthread_join has completed
    backend,          \* the handler's device: "open" or "closed"
    returned,         \* the function return made by the last step, or NoRet
    call,             \* api.c: the emulation call being made, with its arguments
    result            \* api.c: what the call returned and wrote, or NoResult

devvars == <<flags, lock_state, state_lock, recovery_thread, lock_thread,
             pc, ret, joined, backend, returned>>

apivars == <<call, result>>

vars == <<devvars, apivars>>

NoCall == [fn |-> "none"]
NoResult == [fn |-> "none"]

NoRet == <<NoThread, "none", "none">>

StartPc(t) == IF t \in Callers THEN "idle" ELSE "unborn"

DevInit ==
    /\ flags = {IS_OPEN}
    /\ lock_state = UNLOCKED
    /\ state_lock = NoThread
    /\ recovery_thread = NoThread
    /\ lock_thread = NoThread
    /\ pc = [t \in Threads |-> StartPc(t)]
    /\ ret = [t \in Threads |-> "none"]
    /\ joined = {}
    /\ backend = "open"
    /\ returned = NoRet

ApiIdle ==
    /\ call = NoCall
    /\ result = NoResult

(* The step is inside a function: nothing returns. *)
Goto(t, to) ==
    /\ pc' = [pc EXCEPT ![t] = to]
    /\ returned' = NoRet

(* The step sets the local variable ret and goes on. *)
GotoRet(t, to, r) ==
    /\ Goto(t, to)
    /\ ret' = [ret EXCEPT ![t] = r]

(* The step returns r from function fn to its caller, which goes on at "to". *)
Return(t, fn, r, to) ==
    /\ pc' = [pc EXCEPT ![t] = to]
    /\ ret' = [ret EXCEPT ![t] = IF to \in {"idle", "exited"} THEN "none" ELSE r]
    /\ returned' = <<t, fn, r>>

(* pthread_mutex_lock(&rdev->state_lock) *)
MutexLock(t, from, to) ==
    /\ pc[t] = from
    /\ state_lock = NoThread
    /\ state_lock' = t
    /\ Goto(t, to)
    /\ UNCHANGED <<flags, lock_state, recovery_thread, lock_thread, ret, joined, backend>>

MutexUnlock(t) ==
    /\ state_lock = t
    /\ state_lock' = NoThread

(* A caller enters an operation: its first statement takes the mutex. *)
Enter(t, to) ==
    /\ t \in Callers
    /\ MutexLock(t, "idle", to)

(* Where a thread continues when tcmu_reopen_dev returns r to it. *)
AfterReopen(t, r) ==
    IF t \in Callers THEN "idle"
    ELSE IF t \in RecTasks THEN "exited"
    ELSE IF r = "OK" THEN "lk_lock" ELSE "lk_done_lock"

(***************************************************************************)
(* pthread_join(h) called by thread t.  Joining a task that has returned   *)
(* and was never joined succeeds.  Joining a running task blocks.  Joining *)
(* the calling thread, a handle that was never created or a task that was  *)
(* already joined is undefined: it returns an error, returns 0, or never   *)
(* returns.                                                                *)
(***************************************************************************)
JoinResults(t, h) ==
    IF h \in Tasks /\ h # t /\ h \notin joined
    THEN IF pc[h] = "exited" THEN {"OK"} ELSE {}
    ELSE IF h = t THEN {"EDEADLK", "hang"}
    ELSE {"OK", "ESRCH", "hang"}

Joins(t, h, r) ==
    joined' = IF h \in Tasks /\ h # t /\ r = "OK" THEN joined \cup {h} ELSE joined

(***************************************************************************)
(* tcmu_cancel_lock_thread, tcmur_device.c:226-247, called by a caller     *)
(* ("clt_") and by __tcmu_reopen_dev ("ro_clt_"), which drops its result.  *)
(***************************************************************************)
CancelLockCs(t, from, toJoin, toRet) ==
    /\ pc[t] = from
    /\ MutexUnlock(t)
    /\ IF lock_state # LOCKING
       THEN Return(t, "cancel_lock_thread", "OK", toRet)
       ELSE Goto(t, toJoin) /\ UNCHANGED ret
    /\ UNCHANGED <<flags, lock_state, recovery_thread, lock_thread, joined, backend>>

CancelLockJoin(t, from, toRet, toHang) ==
    /\ pc[t] = from
    /\ \E r \in JoinResults(t, lock_thread) :
         /\ Joins(t, lock_thread, r)
         /\ IF r = "hang"
            THEN Goto(t, toHang) /\ UNCHANGED ret
            ELSE Return(t, "cancel_lock_thread", r, toRet)
    /\ UNCHANGED <<flags, lock_state, state_lock, recovery_thread, lock_thread, backend>>

CltEnter(t) == Enter(t, "clt_cs")
CltCs(t) == CancelLockCs(t, "clt_cs", "clt_join", "idle")
CltJoin(t) == CancelLockJoin(t, "clt_join", "idle", "clt_hung")

(***************************************************************************)
(* __tcmu_reopen_dev, tcmur_device.c:46-105                                *)
(***************************************************************************)
(* done: without the clearing of IN_RECOVERY *)
RoDoneKeepsRecovery(t, f, r) ==
    /\ flags' = f
    /\ MutexUnlock(t)
    /\ Return(t, "reopen", r, AfterReopen(t, r))

(* done: clear IN_RECOVERY in the flags value f, unlock, return r *)
RoDone(t, f, r) ==
    /\ flags' = f \ {IN_RECOVERY}
    /\ MutexUnlock(t)
    /\ Return(t, "reopen", r, AfterReopen(t, r))

(* ret = aio_wait_for_empty_queue(rdev) *)
RoDrain(t) ==
    /\ pc[t] = "ro_drain"
    /\ \E r \in {"OK", "EDRAIN"} : GotoRet(t, "ro_lock1", r)
    /\ UNCHANGED <<flags, lock_state, state_lock, recovery_thread, lock_thread,
                   joined, backend>>

RoLock1(t) == MutexLock(t, "ro_lock1", "ro_cs1")

(* the sequence going on to the close whatever the drain returned *)
RoCs1IgnoresDrain(t) ==
    /\ pc[t] = "ro_cs1"
    /\ IF SHUTTING_DOWN \in flags THEN RoDone(t, flags, "OK")
       ELSE /\ MutexUnlock(t)
            /\ Goto(t, "ro_clt_lock")
            /\ UNCHANGED <<flags, ret>>
    /\ UNCHANGED <<lock_state, recovery_thread, lock_thread, joined, backend>>

(* the sequence without the test of SHUTTING_DOWN after the drain *)
RoCs1NoShutdownCheck(t) ==
    /\ pc[t] = "ro_cs1"
    /\ IF ret[t] # "OK" THEN RoDone(t, flags, ret[t])
       ELSE /\ MutexUnlock(t)
            /\ Goto(t, "ro_clt_lock")
            /\ UNCHANGED <<flags, ret>>
    /\ UNCHANGED <<lock_state, recovery_thread, lock_thread, joined, backend>>

RoCs1(t) ==
    /\ pc[t] = "ro_cs1"
    /\ IF ret[t] # "OK" THEN RoDone(t, flags, ret[t])
       ELSE IF SHUTTING_DOWN \in flags THEN RoDone(t, flags, "OK")
       ELSE /\ MutexUnlock(t)
            /\ Goto(t, "ro_clt_lock")
            /\ UNCHANGED <<flags, ret>>
    /\ UNCHANGED <<lock_state, recovery_thread, lock_thread, joined, backend>>

(* tcmu_cancel_lock_thread(dev) *)
RoCltLock(t) == MutexLock(t, "ro_clt_lock", "ro_clt_cs")
RoCltCs(t) == CancelLockCs(t, "ro_clt_cs", "ro_clt_join", "ro_lock2")
RoCltJoin(t) == CancelLockJoin(t, "ro_clt_join", "ro_lock2", "ro_clt_hung")

RoLock2(t) == MutexLock(t, "ro_lock2", "ro_cs2")

(* the sequence calling close without the unlock of line 80 *)
RoCs2KeepsMutex(t) ==
    /\ pc[t] = "ro_cs2"
    /\ lock_state' = IF lock_state # LOCKING THEN UNLOCKED ELSE lock_state
    /\ Goto(t, "ro_close")
    /\ UNCHANGED <<flags, state_lock, recovery_thread, lock_thread, ret, joined, backend>>

RoCs2(t) ==
    /\ pc[t] = "ro_cs2"
    /\ lock_state' = IF lock_state # LOCKING THEN UNLOCKED ELSE lock_state
    /\ MutexUnlock(t)
    /\ Goto(t, "ro_close")
    /\ UNCHANGED <<flags, recovery_thread, lock_thread, ret, joined, backend>>

(* rhandler->close(dev) *)
RoClose(t) ==
    /\ pc[t] = "ro_close"
    /\ backend' = "closed"
    /\ Goto(t, "ro_lock3")
    /\ UNCHANGED <<flags, lock_state, state_lock, recovery_thread, lock_thread, ret,
                   joined>>

RoLock3(t) == MutexLock(t, "ro_lock3", "ro_cs3")

(* the sequence without ret = -EIO: shutdown before the first open returns 0 *)
RoCs3ShutdownOk(t) ==
    /\ pc[t] = "ro_cs3"
    /\ IF SHUTTING_DOWN \notin flags
       THEN /\ flags' = flags \ {IS_OPEN}
            /\ MutexUnlock(t)
            /\ GotoRet(t, "ro_open", "EIO")
       ELSE RoDone(t, flags \ {IS_OPEN}, "OK")
    /\ UNCHANGED <<lock_state, recovery_thread, lock_thread, joined, backend>>

(* clear IS_OPEN, ret = -EIO, first test of the while condition *)
RoCs3(t) ==
    /\ pc[t] = "ro_cs3"
    /\ IF SHUTTING_DOWN \notin flags
       THEN /\ flags' = flags \ {IS_OPEN}
            /\ MutexUnlock(t)
            /\ GotoRet(t, "ro_open", "EIO")
       ELSE RoDone(t, flags \ {IS_OPEN}, "EIO")
    /\ UNCHANGED <<lock_state, recovery_thread, lock_thread, joined, backend>>

(* ret = rhandler->open(dev), returning r *)
RoOpenR(t, r) ==
    /\ pc[t] = "ro_open"
    /\ GotoRet(t, "ro_lock4", r)
    /\ backend' = IF r = "OK" THEN "open" ELSE backend
    /\ UNCHANGED <<flags, lock_state, state_lock, recovery_thread, lock_thread,
                   joined>>

RoOpen(t) == \E r \in {"OK", "EOPEN"} : RoOpenR(t, r)

RoLock4(t) == MutexLock(t, "ro_lock4", "ro_cs4")

(* the loop as a single attempt: it leaves after the first open, failed or not *)
RoCs4GiveUp(t) ==
    /\ pc[t] = "ro_cs4"
    /\ LET f == IF ret[t] = "OK" THEN flags \cup {IS_OPEN} ELSE flags
       IN  RoDone(t, f, ret[t])
    /\ UNCHANGED <<lock_state, recovery_thread, lock_thread, joined, backend>>

(* the loop setting IS_OPEN after every open, failed or not *)
RoCs4SetsOpenAnyway(t) ==
    /\ pc[t] = "ro_cs4"
    /\ LET f == flags \cup {IS_OPEN}
       IN  IF ret[t] # "OK" /\ SHUTTING_DOWN \notin f
           THEN /\ flags' = f
                /\ MutexUnlock(t)
                /\ Goto(t, "ro_open")
                /\ UNCHANGED ret
           ELSE RoDone(t, f, ret[t])
    /\ UNCHANGED <<lock_state, recovery_thread, lock_thread, joined, backend>>

(* if (!ret) set IS_OPEN; next test of the while condition *)
RoCs4(t) ==
    /\ pc[t] = "ro_cs4"
    /\ LET f == IF ret[t] = "OK" THEN flags \cup {IS_OPEN} ELSE flags
       IN  IF ret[t] # "OK" /\ SHUTTING_DOWN \notin f
           THEN /\ flags' = f
                /\ MutexUnlock(t)
                /\ Goto(t, "ro_open")
                /\ UNCHANGED ret
           ELSE RoDone(t, f, ret[t])
    /\ UNCHANGED <<lock_state, recovery_thread, lock_thread, joined, backend>>

(***************************************************************************)
(* tcmu_reopen_dev, tcmur_device.c:111-124                                 *)
(***************************************************************************)
RdEnter(t) == Enter(t, "rd_cs")

(* the lock task calls tcmu_reopen_dev as well *)
RdLock(t) == MutexLock(t, "rd_lock", "rd_cs")

(* tcmu_reopen_dev without the IN_RECOVERY test *)
RdCsNoCheck(t) ==
    /\ pc[t] = "rd_cs"
    /\ MutexUnlock(t)
    /\ flags' = flags \cup {IN_RECOVERY}
    /\ Goto(t, "ro_drain")
    /\ UNCHANGED ret
    /\ UNCHANGED <<lock_state, recovery_thread, lock_thread, joined, backend>>

(* tcmu_reopen_dev leaving through "done:" of the sequence when busy *)
RdCsBusyClears(t) ==
    /\ pc[t] = "rd_cs"
    /\ MutexUnlock(t)
    /\ IF IN_RECOVERY \in flags
       THEN /\ Return(t, "reopen", "EBUSY", AfterReopen(t, "EBUSY"))
            /\ flags' = flags \ {IN_RECOVERY}
       ELSE /\ flags' = flags \cup {IN_RECOVERY}
            /\ Goto(t, "ro_drain")
            /\ UNCHANGED ret
    /\ UNCHANGED <<lock_state, recovery_thread, lock_thread, joined, backend>>

RdCs(t) ==
    /\ pc[t] = "rd_cs"
    /\ MutexUnlock(t)
    /\ IF IN_RECOVERY \in flags
       THEN /\ Return(t, "reopen", "EBUSY", AfterReopen(t, "EBUSY"))
            /\ UNCHANGED flags
       ELSE /\ flags' = flags \cup {IN_RECOVERY}
            /\ Goto(t, "ro_drain")
            /\ UNCHANGED ret
    /\ UNCHANGED <<lock_state, recovery_thread, lock_thread, joined, backend>>

(***************************************************************************)
(* tcmu_cancel_recovery, tcmur_device.c:126-162                            *)
(***************************************************************************)
CrEnter(t) == Enter(t, "cr_cs1")

CrCs1(t) ==
    /\ pc[t] = "cr_cs1"
    /\ MutexUnlock(t)
    /\ IF IN_RECOVERY \notin flags
       THEN Return(t, "cancel_recovery", "OK", "idle")
       ELSE Goto(t, "cr_join") /\ UNCHANGED ret
    /\ UNCHANGED <<flags, lock_state, recovery_thread, lock_thread, joined, backend>>

(* ret = pthread_join(rdev->recovery_thread, &join_retval) *)
CrJoin(t) ==
    /\ pc[t] = "cr_join"
    /\ \E r \in JoinResults(t, recovery_thread) :
         /\ Joins(t, recovery_thread, r)
         /\ IF r = "hang"
            THEN Goto(t, "cr_hung") /\ UNCHANGED ret
            ELSE GotoRet(t, "cr_lock2", r)
    /\ UNCHANGED <<flags, lock_state, state_lock, recovery_thread, lock_thread, backend>>

CrLock2(t) == MutexLock(t, "cr_lock2", "cr_cs2")

(* while (flags & IN_RECOVERY) { unlock; sleep(1); lock; } unlock; return ret *)
(* tcmu_cancel_recovery returning right after the join, without the poll loop *)
CrCs2NoPoll(t) ==
    /\ pc[t] = "cr_cs2"
    /\ MutexUnlock(t)
    /\ Return(t, "cancel_recovery", ret[t], "idle")
    /\ UNCHANGED <<flags, lock_state, recovery_thread, lock_thread, joined, backend>>

CrCs2(t) ==
    /\ pc[t] = "cr_cs2"
    /\ MutexUnlock(t)
    /\ IF IN_RECOVERY \in flags
       THEN Goto(t, "cr_sleep") /\ UNCHANGED ret
       ELSE Return(t, "cancel_recovery", ret[t], "idle")
    /\ UNCHANGED <<flags, lock_state, recovery_thread, lock_thread, joined, backend>>

CrSleep(t) ==
    /\ pc[t] = "cr_sleep"
    /\ Goto(t, "cr_lock2")
    /\ UNCHANGED <<flags, lock_state, state_lock, recovery_thread, lock_thread, ret,
                   joined, backend>>

(***************************************************************************)
(* tcmu_notify_conn_lost, tcmur_device.c:179-202, and the recovery task    *)
(* dev_recovery_thread_fn, tcmur_device.c:164-168                          *)
(***************************************************************************)
NclEnter(t) == Enter(t, "ncl_cs")

Unborn(S) == {h \in S : pc[h] = "unborn"}
NewTask(S) == CHOOSE h \in Unborn(S) : \A g \in Unborn(S) : h[2] <= g[2]

(* tcmu_reset_tpgs(dev): the task runs the reopen sequence, IN_RECOVERY being set *)
RecoveryEntry == "ro_drain"

(* tcmu_notify_conn_lost setting IN_RECOVERY before it knows the task exists *)
NclCsFlagFirst(t) ==
    /\ pc[t] = "ncl_cs"
    /\ MutexUnlock(t)
    /\ IF IN_RECOVERY \in flags
       THEN /\ pc' = [pc EXCEPT ![t] = "idle"]
            /\ returned' = <<t, "notify_conn_lost", "noop">>
            /\ UNCHANGED <<flags, recovery_thread>>
       ELSE \/ /\ Unborn(RecTasks) # {}
               /\ recovery_thread' = NewTask(RecTasks)
               /\ pc' = [pc EXCEPT ![t] = "idle", ![NewTask(RecTasks)] = RecoveryEntry]
               /\ flags' = flags \cup {IN_RECOVERY}
               /\ returned' = <<t, "notify_conn_lost", "spawned">>
            \/ /\ pc' = [pc EXCEPT ![t] = "idle"]
               /\ returned' = <<t, "notify_conn_lost", "failed">>
               /\ flags' = flags \cup {IN_RECOVERY}
               /\ UNCHANGED recovery_thread
    /\ UNCHANGED <<lock_state, lock_thread, ret, joined, backend>>

(* pthread_create(&rdev->recovery_thread, ...) succeeds or fails; the function *)
(* returns nothing: "returned" records the path it took.                       *)
NclCs(t) ==
    /\ pc[t] = "ncl_cs"
    /\ MutexUnlock(t)
    /\ IF IN_RECOVERY \in flags
       THEN /\ pc' = [pc EXCEPT ![t] = "idle"]
            /\ returned' = <<t, "notify_conn_lost", "noop">>
            /\ UNCHANGED <<flags, recovery_thread>>
       ELSE \/ /\ Unborn(RecTasks) # {}
               /\ recovery_thread' = NewTask(RecTasks)
               /\ pc' = [pc EXCEPT ![t] = "idle", ![NewTask(RecTasks)] = RecoveryEntry]
               /\ flags' = flags \cup {IN_RECOVERY}
               /\ returned' = <<t, "notify_conn_lost", "spawned">>
            \/ /\ pc' = [pc EXCEPT ![t] = "idle"]
               /\ returned' = <<t, "notify_conn_lost", "failed">>
               /\ UNCHANGED <<flags, recovery_thread>>
    /\ UNCHANGED <<lock_state, lock_thread, ret, joined, backend>>

(***************************************************************************)
(* tcmu_notify_lock_lost, tcmur_device.c:211-224                           *)
(***************************************************************************)
NllEnter(t) == Enter(t, "nll_cs")

(* tcmu_notify_lock_lost without the LOCKING test *)
NllCsAlways(t) ==
    /\ pc[t] = "nll_cs"
    /\ lock_state' = UNLOCKED
    /\ MutexUnlock(t)
    /\ Return(t, "notify_lock_lost", "void", "idle")
    /\ UNCHANGED <<flags, recovery_thread, lock_thread, joined, backend>>

NllCs(t) ==
    /\ pc[t] = "nll_cs"
    /\ lock_state' = IF lock_state # LOCKING THEN UNLOCKED ELSE lock_state
    /\ MutexUnlock(t)
    /\ Return(t, "notify_lock_lost", "void", "idle")
    /\ UNCHANGED <<flags, recovery_thread, lock_thread, joined, backend>>

(***************************************************************************)
(* The environment of tcmur_device.c: device teardown sets SHUTTING_DOWN,  *)
(* and the lock-acquisition path sets LOCKING, starts the lock task, and   *)
(* the lock task calls the handler's lock, reopens the device when the     *)
(* handler is not connected, and publishes LOCKED or UNLOCKED.             *)
(***************************************************************************)
(* teardown: lock; flags |= SHUTTING_DOWN; unlock *)
Shutdown ==
    /\ state_lock = NoThread
    /\ SHUTTING_DOWN \notin flags
    /\ flags' = flags \cup {SHUTTING_DOWN}
    /\ returned' = NoRet
    /\ UNCHANGED <<lock_state, state_lock, recovery_thread, lock_thread, pc, ret,
                   joined, backend>>

(* lock; lock_state = LOCKING; pthread_create(&rdev->lock_thread, ...); unlock *)
StartLock ==
    /\ state_lock = NoThread
    /\ lock_state = UNLOCKED
    /\ Unborn(LockTasks) # {}
    /\ lock_state' = LOCKING
    /\ lock_thread' = NewTask(LockTasks)
    /\ pc' = [pc EXCEPT ![NewTask(LockTasks)] = "lk_lock"]
    /\ returned' = NoRet
    /\ UNCHANGED <<flags, state_lock, recovery_thread, ret, joined, backend>>

LkLock(t) ==
    /\ t \in LockTasks
    /\ pc[t] = "lk_lock"
    /\ \E r \in {"OK", "ELOCK", "NOTCONN"} :
         GotoRet(t, IF r = "NOTCONN" THEN "rd_lock" ELSE "lk_done_lock", r)
    /\ UNCHANGED <<flags, lock_state, state_lock, recovery_thread, lock_thread,
                   joined, backend>>

LkDoneLock(t) == MutexLock(t, "lk_done_lock", "lk_done_cs")

LkDoneCs(t) ==
    /\ t \in LockTasks
    /\ pc[t] = "lk_done_cs"
    /\ lock_state' = IF ret[t] = "OK" THEN LOCKED ELSE UNLOCKED
    /\ MutexUnlock(t)
    /\ GotoRet(t, "exited", "none")
    /\ UNCHANGED <<flags, recovery_thread, lock_thread, joined, backend>>

(***************************************************************************)
(* The device state machine.                                               *)
(***************************************************************************)
ReopenSeq(t) ==
    \/ RoDrain(t) \/ RoLock1(t) \/ RoCs1(t)
    \/ RoCltLock(t) \/ RoCltCs(t) \/ RoCltJoin(t)
    \/ RoLock2(t) \/ RoCs2(t) \/ RoClose(t)
    \/ RoLock3(t) \/ RoCs3(t) \/ RoOpen(t) \/ RoLock4(t) \/ RoCs4(t)

Reopen(t) == RdEnter(t) \/ RdLock(t) \/ RdCs(t)
CancelRecovery(t) == CrEnter(t) \/ CrCs1(t) \/ CrJoin(t) \/ CrLock2(t) \/ CrCs2(t) \/ CrSleep(t)
CancelLockThread(t) == CltEnter(t) \/ CltCs(t) \/ CltJoin(t)
NotifyConnLost(t) == NclEnter(t) \/ NclCs(t)
NotifyLockLost(t) == NllEnter(t) \/ NllCs(t)
LockTask(t) == LkLock(t) \/ LkDoneLock(t) \/ LkDoneCs(t)

ThreadStep(t) ==
    \/ Reopen(t)
    \/ ReopenSeq(t)
    \/ CancelRecovery(t)
    \/ CancelLockThread(t)
    \/ NotifyConnLost(t)
    \/ NotifyLockLost(t)
    \/ LockTask(t)

DevNext ==
    \/ \E t \in Threads : ThreadStep(t)
    \/ Shutdown
    \/ StartLock

Init == DevInit /\ ApiIdle
Next == DevNext /\ UNCHANGED apivars
Spec == Init /\ [][Next]_vars

TypeOK ==
    /\ flags \subseteq {IN_RECOVERY, SHUTTING_DOWN, IS_OPEN}
    /\ lock_state \in {UNLOCKED, LOCKING, LOCKED}
    /\ state_lock \in Threads \cup {NoThread}

(***************************************************************************)
(* Properties of the device state machine.                                 *)
(***************************************************************************)
RoPcs == {"ro_drain", "ro_lock1", "ro_cs1", "ro_clt_lock", "ro_clt_cs", "ro_clt_join",
          "ro_clt_hung", "ro_lock2", "ro_cs2", "ro_close", "ro_lock3", "ro_cs3",
          "ro_open", "ro_lock4", "ro_cs4"}

(* thread t is executing __tcmu_reopen_dev *)
InReopenSeq(t) == pc[t] \in RoPcs

Moved(t) == pc'[t] # pc[t]

TaskPcs(S) == [h \in S |-> pc[h]]

(* C1: at most one thread executes the internal reopen sequence of the device at *)
(* any instant.                                                                  *)
C1_SingleFlight ==
    Cardinality({t \in Threads : InReopenSeq(t)}) <= 1

(* a thread is in the open retry loop while another is about to test IN_RECOVERY *)
C1_Witness ==
    \E t \in Threads, u \in Threads :
        /\ t # u
        /\ pc[t] = "ro_open"
        /\ pc[u] = "rd_cs"

(* C2: a reopen call that finds IN_RECOVERY set returns EBUSY at once and changes *)
(* neither flags, lock_state nor the backend; one that finds it clear sets it and *)
(* starts the sequence; so a call made while another thread runs the sequence is  *)
(* the one that observes busy.                                                    *)
C2_BusyStep ==
    \A t \in Threads :
        (pc[t] = "rd_cs" /\ Moved(t)) =>
            /\ (IN_RECOVERY \in flags \/ \E u \in Threads : InReopenSeq(u)) =>
                  /\ returned' = <<t, "reopen", "EBUSY">>
                  /\ pc'[t] = AfterReopen(t, "EBUSY")
                  /\ flags' = flags
                  /\ lock_state' = lock_state
                  /\ backend' = backend
                  /\ joined' = joined
            /\ (IN_RECOVERY \notin flags) =>
                  /\ pc'[t] = "ro_drain"
                  /\ flags' = flags \cup {IN_RECOVERY}
                  /\ returned' = NoRet

C2_ReopenBusy == [][C2_BusyStep]_vars

(* a reopen call has just returned EBUSY while another reopen call runs the sequence *)
C2_Witness ==
    \E t \in Threads, u \in Threads \ RecTasks :
        /\ t # u
        /\ returned = <<t, "reopen", "EBUSY">>
        /\ InReopenSeq(u)

(* C3: IN_RECOVERY is clear in the step in which cancel_recovery returns, and a call *)
(* that finds it clear at entry returns 0 in that step without joining a task.       *)
C3_ReturnStep ==
    \A t \in Threads :
        /\ (returned'[1] = t /\ returned'[2] = "cancel_recovery") =>
              /\ IN_RECOVERY \notin flags
              /\ IN_RECOVERY \notin flags'
        /\ (pc[t] = "cr_cs1" /\ Moved(t) /\ IN_RECOVERY \notin flags) =>
              /\ returned' = <<t, "cancel_recovery", "OK">>
              /\ pc'[t] = "idle"
              /\ joined' = joined

C4_NclStep ==
    \A t \in Threads :
        (pc[t] = "ncl_cs" /\ Moved(t)) =>
            /\ lock_state' = lock_state
            /\ joined' = joined
            /\ IF IN_RECOVERY \in flags
               THEN /\ flags' = flags
                    /\ recovery_thread' = recovery_thread
                    /\ TaskPcs(Tasks)' = TaskPcs(Tasks)
               ELSE \/ /\ flags' = flags \cup {IN_RECOVERY}
                       /\ \E h \in RecTasks :
                            /\ pc[h] = "unborn"
                            /\ pc'[h] = RecoveryEntry
                            /\ recovery_thread' = h
                            /\ \A g \in Tasks \ {h} : pc'[g] = pc[g]
                    \/ /\ flags' = flags
                       /\ TaskPcs(Tasks)' = TaskPcs(Tasks)

C4_NotifyConnLost == [][C4_NclStep]_vars

(* notify_conn_lost has just returned as a no-op while a recovery task is running *)
C4_Witness ==
    \E t \in Callers, h \in RecTasks :
        /\ returned = <<t, "notify_conn_lost", "noop">>
        /\ InReopenSeq(h)
        /\ IN_RECOVERY \in flags

(* C5: notify_lock_lost leaves LOCKING alone, turns UNLOCKED and LOCKED into *)
(* UNLOCKED, leaves the flags alone and starts or joins no task.             *)
C5_NllStep ==
    \A t \in Threads :
        (pc[t] = "nll_cs" /\ Moved(t)) =>
            /\ lock_state' = IF lock_state = LOCKING THEN LOCKING ELSE UNLOCKED
            /\ flags' = flags
            /\ joined' = joined
            /\ TaskPcs(Tasks)' = TaskPcs(Tasks)
            /\ recovery_thread' = recovery_thread
            /\ lock_thread' = lock_thread

C5_NotifyLockLost == [][C5_NllStep]_vars

(* notify_lock_lost has just returned and the lock task is still acquiring *)
C5_Witness ==
    \E t \in Callers :
        /\ returned = <<t, "notify_lock_lost", "void">>
        /\ lock_state = LOCKING

(***************************************************************************)
(* Scheduling: the thread that holds the mutex runs on to its unlock; the  *)
(* thread in the open retry loop has its open call return and obtains the *)
(* mutex, which is free again and again.  Callers are not obliged to start *)
(* operations.                                                             *)
(***************************************************************************)
HolderStep(t) ==
    \/ RdCs(t)
    \/ RoCs1(t) \/ RoCltCs(t) \/ RoCs2(t) \/ RoCs3(t) \/ RoCs4(t)
    \/ CrCs1(t) \/ CrCs2(t)
    \/ CltCs(t)
    \/ NclCs(t)
    \/ NllCs(t)
    \/ LkDoneCs(t)

(* the liveness checks run one caller beside the recovery and lock tasks *)
LiveThreads == {<<"c", 1>>} \cup Tasks

LiveStep ==
    \/ \E t \in LiveThreads : ThreadStep(t)
    \/ Shutdown
    \/ StartLock

LiveNext == LiveStep /\ UNCHANGED apivars

SchedFair ==
    /\ WF_vars((\E t \in LiveThreads : HolderStep(t)) /\ UNCHANGED apivars)
    /\ WF_vars((\E t \in LiveThreads : RoOpen(t)) /\ UNCHANGED apivars)
    /\ SF_vars((\E t \in LiveThreads : RoLock4(t)) /\ UNCHANGED apivars)

LiveSpec == Init /\ [][LiveNext]_vars /\ SchedFair

(* the handler's open, called again and again, succeeds at some point *)
OpenFair == SF_vars((\E t \in LiveThreads : RoOpenR(t, "OK")) /\ UNCHANGED apivars)

LoopPcs == {"ro_open", "ro_lock4", "ro_cs4"}

(* C6: the open retry loop is left only after an open that succeeded, which sets *)
(* IS_OPEN, or with SHUTTING_DOWN set; it is left if open succeeds at some point *)
(* and it is left once SHUTTING_DOWN is set.                                     *)
C6_LoopStep ==
    \A t \in Threads :
        /\ (pc[t] \in LoopPcs /\ pc'[t] \notin LoopPcs) =>
              /\ pc[t] = "ro_cs4"
              /\ \/ ret[t] = "OK" /\ IS_OPEN \in flags' /\ returned' = <<t, "reopen", "OK">>
                 \/ SHUTTING_DOWN \in flags /\ returned' = <<t, "reopen", ret[t]>>
        /\ (pc[t] = "ro_cs3" /\ Moved(t) /\ pc'[t] # "ro_open") => SHUTTING_DOWN \in flags
        /\ (pc[t] = "ro_cs4" /\ Moved(t) /\ ret[t] = "OK") => IS_OPEN \in flags'

InLoop == \E t \in Threads : pc[t] \in LoopPcs

C6_RetryLoop ==
    /\ [][C6_LoopStep]_vars
    /\ OpenFair => (InLoop ~> ~InLoop)
    /\ (InLoop /\ SHUTTING_DOWN \in flags) ~> ~InLoop

(* a thread is back at the head of the loop with a failed open behind it *)
C6_Witness ==
    \E t \in Threads :
        /\ pc[t] = "ro_open"
        /\ ret[t] = "EOPEN"
        /\ SHUTTING_DOWN \notin flags

(***************************************************************************)
(* Properties of the reopen sequence, __tcmu_reopen_dev.                   *)
(***************************************************************************)
(* thread t comes to position p in this step *)
Reaches(t, p) == pc'[t] = p /\ pc[t] # p

(* this step is the return of tcmu_cancel_lock_thread to the sequence of t *)
CancelReturns(t) == returned'[1] = t /\ returned'[2] = "cancel_lock_thread"

(* C11: the steps of the reopen sequence are ordered: the close is called only   *)
(* after lock_state was forced, which happens only after cancel_lock_thread has  *)
(* returned, which is called only after a drain that succeeded; the first open   *)
(* is called only after the close has returned; after a failed drain the         *)
(* sequence returns and the backend is not closed.                               *)
C11_Step ==
    \A t \in Threads :
        /\ Reaches(t, "ro_clt_lock") => (pc[t] = "ro_cs1" /\ ret[t] = "OK")
        /\ Reaches(t, "ro_clt_cs") => pc[t] = "ro_clt_lock"
        /\ Reaches(t, "ro_clt_join") => pc[t] = "ro_clt_cs"
        /\ Reaches(t, "ro_lock2") =>
              (pc[t] \in {"ro_clt_cs", "ro_clt_join"} /\ CancelReturns(t))
        /\ Reaches(t, "ro_cs2") => pc[t] = "ro_lock2"
        /\ Reaches(t, "ro_close") =>
              /\ pc[t] = "ro_cs2"
              /\ lock_state' = IF lock_state = LOCKING THEN LOCKING ELSE UNLOCKED
        /\ (pc[t] # "ro_cs2" /\ pc[t] \in RoPcs /\ Moved(t)) => lock_state' = lock_state
        /\ Reaches(t, "ro_lock3") => (pc[t] = "ro_close" /\ backend' = "closed")
        /\ Reaches(t, "ro_cs3") => pc[t] = "ro_lock3"
        /\ (Reaches(t, "ro_open") /\ pc[t] # "ro_cs4") => pc[t] = "ro_cs3"
        /\ (backend = "open" /\ backend' = "closed") =>
              \E u \in Threads : pc[u] = "ro_close" /\ Moved(u)
        /\ (pc[t] = "ro_cs1" /\ Moved(t) /\ ret[t] # "OK") =>
              /\ returned' = <<t, "reopen", ret[t]>>
              /\ pc'[t] \notin RoPcs
              /\ backend' = backend

C11_Order == [][C11_Step]_vars

(* the sequence is about to make its first open, the close behind it *)
C11_Witness ==
    \E t \in Threads :
        /\ pc[t] = "ro_open"
        /\ ret[t] = "EIO"
        /\ backend = "closed"

(* thread t leaves the reopen sequence in this step, returning to its caller *)
SeqReturns(t) ==
    /\ pc[t] \in RoPcs
    /\ returned'[1] = t
    /\ returned'[2] = "reopen"

(* C12: the reopen sequence leaves only by a return, made from the critical      *)
(* section after the drain, after the close or after an open, and IN_RECOVERY is *)
(* clear after that step; IN_RECOVERY is cleared by no other step, so it is set  *)
(* for as long as a thread is in the sequence.                                   *)
C12_Step ==
    /\ \A t \in Threads :
          (pc[t] \in RoPcs /\ pc'[t] \notin RoPcs) =>
              /\ pc[t] \in {"ro_cs1", "ro_cs3", "ro_cs4"}
              /\ SeqReturns(t)
              /\ IN_RECOVERY \notin flags'
    /\ (IN_RECOVERY \in flags /\ IN_RECOVERY \notin flags') =>
          \E u \in Threads : pc[u] \in RoPcs /\ pc'[u] \notin RoPcs

C12_ClearsRecovery ==
    /\ [](\A t \in Threads : InReopenSeq(t) => IN_RECOVERY \in flags)
    /\ [][C12_Step]_vars

(* the sequence has just returned a failed open from the retry loop on shutdown *)
C12_Witness ==
    \E t \in Threads :
        /\ returned = <<t, "reopen", "EOPEN">>
        /\ SHUTTING_DOWN \in flags
        /\ IN_RECOVERY \notin flags

(* C13 as stated: whenever the sequence returns, the backend open was called, the *)
(* value returned is the result of its last call, and IS_OPEN is set when that    *)
(* value is 0.                                                                    *)
C13_OriginalStep ==
    \A t \in Threads :
        SeqReturns(t) =>
            /\ pc[t] = "ro_cs4"
            /\ returned'[3] = ret[t]
            /\ (returned'[3] = "OK") => IS_OPEN \in flags'

C13_Original == [][C13_OriginalStep]_vars

(* C13: the sequence returns the error of the drain when the drain failed, 0 when *)
(* SHUTTING_DOWN is set at the re-check after the drain, -EIO when SHUTTING_DOWN  *)
(* is set after the close and before any open, and otherwise the result of the    *)
(* last backend open: 0 with IS_OPEN set, or an error with SHUTTING_DOWN set.     *)
C13_Step ==
    \A t \in Threads :
        SeqReturns(t) =>
            \/ /\ pc[t] = "ro_cs1"
               /\ ret[t] # "OK"
               /\ returned'[3] = ret[t]
            \/ /\ pc[t] = "ro_cs1"
               /\ ret[t] = "OK"
               /\ SHUTTING_DOWN \in flags
               /\ returned'[3] = "OK"
            \/ /\ pc[t] = "ro_cs3"
               /\ SHUTTING_DOWN \in flags
               /\ returned'[3] = "EIO"
            \/ /\ pc[t] = "ro_cs4"
               /\ returned'[3] = ret[t]
               /\ IF ret[t] = "OK" THEN IS_OPEN \in flags' ELSE SHUTTING_DOWN \in flags

C13_ReturnValue == [][C13_Step]_vars

(* the sequence has just returned -EIO: shut down after the close, no open called *)
C13_Witness ==
    \E t \in Threads :
        /\ returned = <<t, "reopen", "EIO">>
        /\ IS_OPEN \notin flags
        /\ backend = "closed"

(* C14: when the critical section after a successful drain finds SHUTTING_DOWN   *)
(* set, the sequence returns 0 in that step: it goes to none of its later        *)
(* positions (cancel_lock_thread, close, open), joins no task, leaves the        *)
(* backend, lock_state, IS_OPEN and SHUTTING_DOWN alone and clears IN_RECOVERY.  *)
C14_Step ==
    \A t \in Threads :
        (pc[t] = "ro_cs1" /\ Moved(t) /\ ret[t] = "OK" /\ SHUTTING_DOWN \in flags) =>
            /\ returned' = <<t, "reopen", "OK">>
            /\ pc'[t] = AfterReopen(t, "OK")
            /\ flags' = flags \ {IN_RECOVERY}
            /\ lock_state' = lock_state
            /\ backend' = backend
            /\ joined' = joined
            /\ lock_thread' = lock_thread
            /\ recovery_thread' = recovery_thread

C14_ShutdownStops == [][C14_Step]_vars

(* the sequence has just returned 0 on a shut-down device that kept its lock: the *)
(* sequence did not go as far as forcing lock_state                               *)
C14_Witness ==
    \E t \in Threads :
        /\ returned = <<t, "reopen", "OK">>
        /\ SHUTTING_DOWN \in flags
        /\ IS_OPEN \in flags
        /\ lock_state = LOCKED
        /\ backend = "open"

(* the positions between pthread_mutex_lock and pthread_mutex_unlock: the only *)
(* ones whose step tests or assigns flags or lock_state                       *)
CsPcs == {"rd_cs", "ro_cs1", "ro_clt_cs", "ro_cs2", "ro_cs3", "ro_cs4",
          "cr_cs1", "cr_cs2", "clt_cs", "ncl_cs", "nll_cs", "lk_done_cs"}

(* the positions inside a call that blocks: drain, close, open, the two joins *)
(* (returning or not) and sleep(1)                                            *)
BlockingPcs == {"ro_drain", "ro_close", "ro_open", "cr_join", "cr_hung",
                "ro_clt_join", "ro_clt_hung", "clt_join", "clt_hung", "cr_sleep"}

(* C15: a thread inside the drain, the close, the open, a join or the sleep does *)
(* not hold the mutex; a thread at a statement that reads or writes flags or     *)
(* lock_state holds it, and a step of a running thread that changes flags or     *)
(* lock_state is made by the holder of the mutex.                                *)
C15_Held ==
    \A t \in Threads :
        /\ pc[t] \in BlockingPcs => state_lock # t
        /\ pc[t] \in CsPcs => state_lock = t

C15_Step ==
    \A t \in Threads :
        (Moved(t) /\ pc[t] # "unborn" /\ (flags' # flags \/ lock_state' # lock_state)) =>
            state_lock = t

C15_MutexDiscipline == []C15_Held /\ [][C15_Step]_vars

(* a thread is inside the backend open while another holds the mutex to poll *)
C15_Witness ==
    \E t \in Threads, u \in Callers :
        /\ pc[t] = "ro_open"
        /\ pc[u] = "cr_cs2"
        /\ state_lock = u

(* C16: whenever the pthread_join of cancel_recovery is made, the handle in      *)
(* recovery_thread names a recovery task that notify_conn_lost has spawned and   *)
(* that no one has joined.                                                       *)
C16_JoinStep ==
    \A t \in Threads :
        (pc[t] = "cr_join" /\ Moved(t)) =>
            /\ recovery_thread \in RecTasks
            /\ recovery_thread \notin joined

C16_JoinsSpawnedTask == [][C16_JoinStep]_vars

(* C17 as stated: whenever IS_OPEN is set and the sequence is not itself in the *)
(* critical section that clears it, the backend is open.                        *)
C17_Original ==
    (IS_OPEN \in flags /\ \A t \in Threads : pc[t] # "ro_cs3") => backend = "open"

(* C17: whenever IS_OPEN is set the backend is open, except from the backend     *)
(* close of the reopen sequence until the critical section that follows it,      *)
(* which clears IS_OPEN: there IS_OPEN is still set over a closed backend.       *)
C17_IsOpen ==
    IS_OPEN \in flags =>
        \/ backend = "open"
        \/ \E t \in Threads : pc[t] \in {"ro_lock3", "ro_cs3"}

(* the close has returned, the mutex is free and IS_OPEN is still set *)
C17_Witness ==
    /\ IS_OPEN \in flags
    /\ backend = "closed"
    /\ state_lock = NoThread
    /\ \E t \in Threads : pc[t] = "ro_lock3"

(* C18: the reopen sequence never waits in pthread_join for the thread that *)
(* executes it.                                                             *)
C18_NoSelfJoin ==
    \A t \in Threads :
        pc[t] \in {"ro_clt_join", "ro_clt_hung"} => lock_thread # t

(***************************************************************************)
(* api.c: the iovec copies.  Memory is a sequence of bytes, an iovec       *)
(* segment is [iov_base, iov_len] with iov_base an address in it, and a    *)
(* flat buffer is a sequence of bytes.  Lengths are size_t; the model      *)
(* computes them in the integers, so that a length that would wrap around  *)
(* in the code shows as a negative number.                                 *)
(***************************************************************************)
MaxSegs == 3
MaxSegLen == 2
MaxLen == 7

Min(a, b) == IF a < b THEN a ELSE b

(* byte i (from 0) of a flat buffer; a read outside it yields the marker 999 *)
ByteAt(b, i) == IF i + 1 \in DOMAIN b THEN b[i + 1] ELSE 999

(* memcpy(mem + dst, src + off, n) *)
MemcpyToMem(mem, dst, src, off, n) ==
    [a \in DOMAIN mem |->
        IF a >= dst /\ a < dst + n THEN ByteAt(src, off + (a - dst)) ELSE mem[a]]

(* memcpy(dest + off, mem + from, n) *)
MemcpyFromMem(dest, off, mem, from, n) ==
    [k \in DOMAIN dest |->
        IF k - 1 >= off /\ k - 1 < off + n
        THEN (IF from + (k - 1 - off) \in DOMAIN mem THEN mem[from + (k - 1 - off)] ELSE 999)
        ELSE dest[k]]

Consume(iovec, idx, n) ==
    [iovec EXCEPT ![idx] = [iov_base |-> @.iov_base + n, iov_len |-> @.iov_len - n]]

(* a copy that takes the whole segment whatever is left of len *)
ToCopyWholeSegment(iov_len, len) == iov_len

(* to_copy = min(iovec->iov_len, len) *)
ToCopy(iov_len, len) == Min(iov_len, len)

(* tcmu_memcpy_into_iovec: the while loop from segment idx on *)
RECURSIVE IntoLoop(_, _, _, _, _, _, _)
IntoLoop(iovec, idx, iov_cnt, mem, src, len, copied) ==
    IF len # 0 /\ iov_cnt # 0
    THEN LET to_copy == ToCopy(iovec[idx].iov_len, len)
         IN  IF to_copy # 0
             THEN IntoLoop(Consume(iovec, idx, to_copy), idx + 1, iov_cnt - 1,
                           MemcpyToMem(mem, iovec[idx].iov_base, src, copied, to_copy),
                           src, len - to_copy, copied + to_copy)
             ELSE IntoLoop(iovec, idx + 1, iov_cnt - 1, mem, src, len, copied)
    ELSE [iovec |-> iovec, mem |-> mem, copied |-> copied]

tcmu_memcpy_into_iovec(iovec, iov_cnt, mem, src, len) ==
    IntoLoop(iovec, 1, iov_cnt, mem, src, len, 0)

(* tcmu_memcpy_from_iovec: the while loop from segment idx on *)
RECURSIVE FromLoop(_, _, _, _, _, _, _)
FromLoop(dest, len, iovec, idx, iov_cnt, mem, copied) ==
    IF len # 0 /\ iov_cnt # 0
    THEN LET to_copy == ToCopy(iovec[idx].iov_len, len)
         IN  IF to_copy # 0
             THEN FromLoop(MemcpyFromMem(dest, copied, mem, iovec[idx].iov_base, to_copy),
                           len - to_copy, Consume(iovec, idx, to_copy), idx + 1,
                           iov_cnt - 1, mem, copied + to_copy)
             ELSE FromLoop(dest, len, iovec, idx + 1, iov_cnt - 1, mem, copied)
    ELSE [iovec |-> iovec, dest |-> dest, copied |-> copied]

tcmu_memcpy_from_iovec(dest, len, iovec, iov_cnt, mem) ==
    FromLoop(dest, len, iovec, 1, iov_cnt, mem, 0)

(* tcmu_iovec_length *)
RECURSIVE tcmu_iovec_length(_, _)
tcmu_iovec_length(iovec, iov_cnt) ==
    IF iov_cnt = 0 THEN 0
    ELSE tcmu_iovec_length(iovec, iov_cnt - 1) + iovec[iov_cnt].iov_len

(* The segments of the given lengths, laid out in memory with one byte between *)
(* two segments and one before the first.                                      *)
RECURSIVE BaseOf(_, _)
BaseOf(lens, i) == IF i = 1 THEN 2 ELSE BaseOf(lens, i - 1) + lens[i - 1] + 1

Layout(lens) == [i \in 1..Len(lens) |-> [iov_base |-> BaseOf(lens, i), iov_len |-> lens[i]]]

MemSize(lens) == IF Len(lens) = 0 THEN 1 ELSE BaseOf(lens, Len(lens)) + lens[Len(lens)]

SegLens == UNION {[1..n -> 0..MaxSegLen] : n \in 0..MaxSegs}

IovInit ==
    /\ DevInit
    /\ result = NoResult
    /\ \E fn \in {"memcpy_into_iovec", "memcpy_from_iovec"}, lens \in SegLens, len \in 0..MaxLen :
         \E iov_cnt \in 0..Len(lens) :
            call = [fn |-> fn,
                    iovec |-> Layout(lens),
                    iov_cnt |-> iov_cnt,
                    len |-> len,
                    \* the flat buffer: the source holds 1, 2, ..., the destination zeros
                    buf |-> [k \in 1..len |-> IF fn = "memcpy_into_iovec" THEN k ELSE 0],
                    \* the memory under the segments: zeros to write into, 100 + a to read
                    mem |-> [a \in 1..MemSize(lens) |->
                               IF fn = "memcpy_into_iovec" THEN 0 ELSE 100 + a]]

MemcpyInto ==
    /\ call.fn = "memcpy_into_iovec"
    /\ result = NoResult
    /\ result' = [fn |-> call.fn] @@
                 tcmu_memcpy_into_iovec(call.iovec, call.iov_cnt, call.mem, call.buf, call.len)
    /\ UNCHANGED <<call, devvars>>

MemcpyFrom ==
    /\ call.fn = "memcpy_from_iovec"
    /\ result = NoResult
    /\ result' = [fn |-> call.fn] @@
                 tcmu_memcpy_from_iovec(call.buf, call.len, call.iovec, call.iov_cnt, call.mem)
    /\ UNCHANGED <<call, devvars>>

IovNext == MemcpyInto \/ MemcpyFrom

SpecIovec == IovInit /\ [][IovNext]_vars

IovDone == result.fn \in {"memcpy_into_iovec", "memcpy_from_iovec"}

(* the bytes of the first iov_cnt segments that lie before segment i *)
Before(i) == tcmu_iovec_length(call.iovec, i - 1)

(* what a copy of call.len bytes takes from segment i *)
Taken(i) ==
    IF i > call.iov_cnt \/ call.len <= Before(i) THEN 0
    ELSE Min(call.iovec[i].iov_len, call.len - Before(i))

(* the segment that holds byte k (from 1) of the concatenated segments *)
SegOf(k) == CHOOSE i \in 1..call.iov_cnt : Before(i) < k /\ k <= Before(i) + call.iovec[i].iov_len

(* C7: tcmu_memcpy_into_iovec and tcmu_memcpy_from_iovec return the smaller of  *)
(* len and the total length of the iov_cnt segments; every segment's iov_len    *)
(* goes down, and its iov_base up, by exactly the bytes taken from it and never *)
(* below zero, zero-length segments included; the bytes land in order, and      *)
(* nothing is written outside the first `copied` bytes of either side.          *)
C7_IovecCopy ==
    IovDone =>
        /\ result.copied = Min(call.len, tcmu_iovec_length(call.iovec, call.iov_cnt))
        /\ \A i \in DOMAIN call.iovec :
              /\ result.iovec[i].iov_len = call.iovec[i].iov_len - Taken(i)
              /\ result.iovec[i].iov_len >= 0
              /\ result.iovec[i].iov_base = call.iovec[i].iov_base + Taken(i)
        /\ result.fn = "memcpy_into_iovec" =>
              \A a \in DOMAIN call.mem :
                 result.mem[a] =
                    IF \E i \in DOMAIN call.iovec :
                          a >= call.iovec[i].iov_base /\ a < call.iovec[i].iov_base + Taken(i)
                    THEN LET i == CHOOSE j \in DOMAIN call.iovec :
                                     a >= call.iovec[j].iov_base
                                     /\ a < call.iovec[j].iov_base + Taken(j)
                         IN  call.buf[Before(i) + (a - call.iovec[i].iov_base) + 1]
                    ELSE call.mem[a]
        /\ result.fn = "memcpy_from_iovec" =>
              \A k \in DOMAIN call.buf :
                 result.dest[k] =
                    IF k <= result.copied
                    THEN call.mem[call.iovec[SegOf(k)].iov_base + (k - Before(SegOf(k)) - 1)]
                    ELSE call.buf[k]

(* a copy cut short by len in the segment after a zero-length one *)
C7_Witness ==
    /\ result.fn = "memcpy_into_iovec"
    /\ call.iov_cnt = 3
    /\ call.iovec[1].iov_len = 2 /\ call.iovec[2].iov_len = 0 /\ call.iovec[3].iov_len = 2
    /\ call.len = 3
    /\ result.copied = 3
    /\ result.iovec[3].iov_len = 1

(***************************************************************************)
(* api.c: seeking in an iovec.  A command is [array, iovec, iov_cnt]: the  *)
(* segment array in memory, the index in it that cmd->iovec points to, and *)
(* cmd->iov_cnt.                                                           *)
(***************************************************************************)
(* tcmu_seek_in_iovec: the while loop at segment idx of the array.  Under the *)
(* function's precondition (count within the segments from iovec on) idx      *)
(* stays inside the array.                                                    *)
RECURSIVE SeekLoop(_, _, _, _)
SeekLoop(array, idx, count, consumed) ==
    IF count # 0
    THEN IF count >= array[idx].iov_len
         THEN SeekLoop([array EXCEPT ![idx].iov_len = 0], idx + 1,
                       count - array[idx].iov_len, consumed + 1)
         ELSE [array |-> Consume(array, idx, count), consumed |-> consumed]
    ELSE [array |-> array, consumed |-> consumed]

tcmu_seek_in_iovec(array, iovec, count) == SeekLoop(array, iovec, count, 0)

(* cmd->iov_cnt -= tcmu_seek_in_iovec(cmd->iovec, count): cmd->iovec stays *)
tcmu_seek_in_cmd_iovec(cmd, count) ==
    LET r == tcmu_seek_in_iovec(cmd.array, cmd.iovec, count)
    IN  [array |-> r.array, iovec |-> cmd.iovec, iov_cnt |-> cmd.iov_cnt - r.consumed]

(* tcmu_iovec_length(cmd->iovec, cmd->iov_cnt): what the command can still see *)
CmdLength(cmd) ==
    tcmu_iovec_length(SubSeq(cmd.array, cmd.iovec, Len(cmd.array)), cmd.iov_cnt)

(* a command over some layout, seeing the first iov_cnt segments, not yet sought *)
SeekInit ==
    /\ DevInit
    /\ \E lens \in SegLens :
         \E iov_cnt \in 0..Len(lens) :
            /\ call = [fn |-> "seek_in_cmd_iovec",
                       cmd |-> [array |-> Layout(lens), iovec |-> 1, iov_cnt |-> iov_cnt]]
            /\ result = [fn |-> "none", cmd |-> call.cmd, sought |-> 0]

(* one more tcmu_seek_in_cmd_iovec(cmd, count), count within what the command sees *)
SeekInCmd ==
    /\ call.fn = "seek_in_cmd_iovec"
    /\ \E count \in 0..MaxLen :
         /\ count <= CmdLength(result.cmd)
         /\ result' = [fn |-> call.fn,
                       cmd |-> tcmu_seek_in_cmd_iovec(result.cmd, count),
                       sought |-> result.sought + count,
                       count |-> count,
                       consumed |-> tcmu_seek_in_iovec(result.cmd.array, result.cmd.iovec,
                                                       count).consumed]
    /\ UNCHANGED <<call, devvars>>

SpecSeek == SeekInit /\ [][SeekInCmd]_vars

(* C19: after any sequence of tcmu_seek_in_cmd_iovec calls, each with a count   *)
(* within what the command saw, the total length of the first cmd->iov_cnt      *)
(* segments from cmd->iovec on is the total the command started with minus the *)
(* counts sought.                                                               *)
C19_SeekConsumes ==
    result.fn = "seek_in_cmd_iovec" =>
        CmdLength(result.cmd) = CmdLength(call.cmd) - result.sought

(***************************************************************************)
(* api.c: READ CAPACITY.  TLC's integers are narrower than uint64_t, so an *)
(* unsigned value is the sequence of its bytes, most significant first: 8  *)
(* bytes for a uint64_t, 4 for a uint32_t.  What the value looks like in   *)
(* memory depends on the host's byte order, which is an input.             *)
(***************************************************************************)
Zeros(n) == [k \in 1..n |-> 0]

Reverse(v) == [k \in 1..Len(v) |-> v[Len(v) + 1 - k]]

Front(v) == SubSeq(v, 1, Len(v) - 1)

(* v - 1 in unsigned arithmetic of v's width *)
RECURSIVE Sub1(_)
Sub1(v) ==
    IF v = <<>> THEN <<>>
    ELSE IF v[Len(v)] = 0 THEN Sub1(Front(v)) \o <<255>>
    ELSE Front(v) \o <<v[Len(v)] - 1>>

(* the conversion of a uint64_t to uint32_t *)
Low32(v) == SubSeq(v, 5, 8)

(* num_lbas < 0x100000000ULL *)
Below2_32(v) == SubSeq(v, 1, 4) = <<0, 0, 0, 0>>

(* htobe32, htobe64: the value whose bytes in memory are v's, big end first *)
htobe(host, v) == IF host = "le" THEN Reverse(v) ELSE v

(* memcpy(&buf[off], &val, sizeof(val)): the bytes of val as the host stores them *)
ObjBytes(host, v) == IF host = "le" THEN Reverse(v) ELSE v

(* buf with bytes written at offset off (from 0) *)
Put(buf, off, bytes) ==
    [k \in DOMAIN buf |->
        IF k - 1 >= off /\ k - 1 < off + Len(bytes) THEN bytes[k - off] ELSE buf[k]]

(* READ CAPACITY 10 that converts every count, with no test against 2^32 *)
ReadCap10LbaTruncating(host, num_lbas) == htobe(host, Low32(Sub1(num_lbas)))

(* the first val32 of tcmu_emulate_read_capacity_10 *)
ReadCap10Lba(host, num_lbas) ==
    IF Below2_32(num_lbas)
    THEN htobe(host, Low32(Sub1(num_lbas)))
    ELSE <<255, 255, 255, 255>>

tcmu_emulate_read_capacity_10(host, num_lbas, block_size, iovec, iov_cnt, mem) ==
    LET buf0 == Zeros(8)
        buf1 == Put(buf0, 0, ObjBytes(host, ReadCap10Lba(host, num_lbas)))
        buf2 == Put(buf1, 4, ObjBytes(host, htobe(host, block_size)))
    IN  [status |-> "TCMU_STS_OK"] @@ tcmu_memcpy_into_iovec(iovec, iov_cnt, mem, buf2, 8)

tcmu_emulate_read_capacity_16(host, num_lbas, block_size, iovec, iov_cnt, mem) ==
    LET buf0 == Zeros(32)
        buf1 == Put(buf0, 0, ObjBytes(host, htobe(host, Sub1(num_lbas))))
        buf2 == Put(buf1, 8, ObjBytes(host, htobe(host, block_size)))
        buf3 == Put(buf2, 14, <<192>>)       \* 0x80 | 0x40
    IN  [status |-> "TCMU_STS_OK"] @@ tcmu_memcpy_into_iovec(iovec, iov_cnt, mem, buf3, 32)

(* block counts around the borrows and around 2^32 *)
NumLbas ==
    { <<0, 0, 0, 0, 0, 0, 0, 0>>,           \* 0
      <<0, 0, 0, 0, 0, 0, 0, 1>>,           \* 1
      <<0, 0, 0, 0, 0, 0, 0, 5>>,           \* 5
      <<0, 0, 0, 0, 0, 0, 1, 0>>,           \* 256
      <<0, 0, 0, 0, 18, 52, 86, 120>>,      \* 0x12345678
      <<0, 0, 0, 0, 255, 255, 255, 255>>,   \* 2^32 - 1
      <<0, 0, 0, 1, 0, 0, 0, 0>>,           \* 2^32
      <<0, 0, 0, 1, 0, 0, 0, 1>>,           \* 2^32 + 1
      <<1, 2, 3, 4, 5, 6, 7, 8>>,
      <<255, 255, 255, 255, 255, 255, 255, 255>> }

BlockSizes == { <<0, 0, 2, 0>>, <<0, 0, 16, 0>>, <<1, 2, 3, 4>> }   \* 512, 4096, 0x01020304

(* data-in buffers shorter than, as long as and longer than the responses *)
RespLens == { <<0>>, <<4>>, <<8>>, <<3, 0, 5>>, <<12>>, <<32>>, <<16, 16>>, <<40>> }

Hosts == {"le", "be"}

Fill == 238

RcInit ==
    /\ DevInit
    /\ result = NoResult
    /\ \E fn \in {"read_capacity_10", "read_capacity_16"}, host \in Hosts,
          num_lbas \in NumLbas, block_size \in BlockSizes, lens \in RespLens :
            call = [fn |-> fn, host |-> host, num_lbas |-> num_lbas,
                    block_size |-> block_size,
                    iovec |-> Layout(lens), iov_cnt |-> Len(lens),
                    mem |-> [a \in 1..MemSize(lens) |-> Fill]]

ReadCapacity10 ==
    /\ call.fn = "read_capacity_10"
    /\ result = NoResult
    /\ result' = [fn |-> call.fn] @@
                 tcmu_emulate_read_capacity_10(call.host, call.num_lbas, call.block_size,
                                               call.iovec, call.iov_cnt, call.mem)
    /\ UNCHANGED <<call, devvars>>

ReadCapacity16 ==
    /\ call.fn = "read_capacity_16"
    /\ result = NoResult
    /\ result' = [fn |-> call.fn] @@
                 tcmu_emulate_read_capacity_16(call.host, call.num_lbas, call.block_size,
                                               call.iovec, call.iov_cnt, call.mem)
    /\ UNCHANGED <<call, devvars>>

RcNext == ReadCapacity10 \/ ReadCapacity16

SpecReadCap == RcInit /\ [][RcNext]_vars

(* the bytes of memory under the first iov_cnt segments, in order *)
RECURSIVE IovBytes(_, _, _)
IovBytes(iovec, iov_cnt, mem) ==
    IF iov_cnt = 0 THEN <<>>
    ELSE IovBytes(iovec, iov_cnt - 1, mem)
         \o [k \in 1..iovec[iov_cnt].iov_len |-> mem[iovec[iov_cnt].iov_base + k - 1]]

(* what the initiator finds in its data-in buffer *)
DataIn == IovBytes(call.iovec, call.iov_cnt, result.mem)

(* v + 1 in unsigned arithmetic of v's width *)
RECURSIVE Add1(_)
Add1(v) ==
    IF v = <<>> THEN <<>>
    ELSE IF v[Len(v)] = 255 THEN Add1(Front(v)) \o <<0>>
    ELSE Front(v) \o <<v[Len(v)] + 1>>

(* the first n bytes of the data-in buffer are those of resp, and no more are written *)
Delivers(resp) ==
    LET n == Min(Len(resp), Len(DataIn))
    IN  /\ result.copied = n
        /\ SubSeq(DataIn, 1, n) = SubSeq(resp, 1, n)
        /\ \A k \in n + 1..Len(DataIn) : DataIn[k] = Fill

(* C10: READ CAPACITY 10 reports, big end first, the last LBA = block count - 1   *)
(* in 32 bits, or 0xffffffff when the count is above 2^32 - 1, then the block     *)
(* size unchanged; READ CAPACITY 16 reports the exact 64-bit count - 1, then the  *)
(* block size unchanged.  Both return OK, and the data-in buffer receives as much *)
(* of the response as it has room for.                                            *)
C10_ReadCapacity ==
    /\ result.fn = "read_capacity_10" =>
          \E lba \in {Sub1(Low32(call.num_lbas)), <<255, 255, 255, 255>>} :
             /\ IF Below2_32(call.num_lbas)
                THEN Add1(lba) = Low32(call.num_lbas)
                ELSE lba = <<255, 255, 255, 255>>
             /\ Delivers(lba \o call.block_size)
             /\ result.status = "TCMU_STS_OK"
    /\ result.fn = "read_capacity_16" =>
          \E lba \in {Sub1(call.num_lbas)} :
             /\ Add1(lba) = call.num_lbas
             /\ Delivers(lba \o call.block_size \o <<0, 0, 192>> \o Zeros(17))
             /\ result.status = "TCMU_STS_OK"

(* five blocks of 512 bytes: last LBA 4, block size 512 *)
C10_Witness ==
    /\ result.fn = "read_capacity_10"
    /\ call.num_lbas = <<0, 0, 0, 0, 0, 0, 0, 5>>
    /\ call.block_size = <<0, 0, 2, 0>>
    /\ DataIn = <<0, 0, 0, 4, 0, 0, 2, 0>>

(***************************************************************************)
(* api.c: MODE SENSE and MODE SELECT.  A CDB is the sequence of its bytes, *)
(* cdb[k] of the code being Cdb(cdb, k).  The device is what the accessors *)
(* return: num_lbas, block_size, write_cache_enabled.                      *)
(***************************************************************************)
MaxAlloc == 70

MODE_SENSE_10 == 90
NullPtr == -1
EINVAL == -22

Cdb(cdb, k) == cdb[k + 1]

(* x & mask # 0, for a mask of one bit *)
BitSet(x, mask) == (x \div mask) % 2 = 1

(* tcmu_get_cdb_length, for the groups of the 6 and 10 byte commands *)
tcmu_get_cdb_length(cdb) ==
    LET group_code == Cdb(cdb, 0) \div 32
    IN  IF group_code = 0 THEN 6
        ELSE IF group_code \in {1, 2} THEN 10
        ELSE EINVAL

(* be16toh(*((uint16_t *)&cdb[k])): the load takes the host's byte order *)
Be16ToHost(host, b0, b1) ==
    LET loaded == IF host = "le" THEN b0 + 256 * b1 ELSE 256 * b0 + b1
    IN  IF host = "le" THEN (loaded % 256) * 256 + loaded \div 256 ELSE loaded

(* tcmu_get_xfer_length, for the 6 and 10 byte commands *)
tcmu_get_xfer_length(host, cdb) ==
    IF tcmu_get_cdb_length(cdb) = 6 THEN Cdb(cdb, 4)
    ELSE Be16ToHost(host, Cdb(cdb, 7), Cdb(cdb, 8))

(* put_unaligned_be16 of a value below 65536 *)
Be16(n) == <<n \div 256, n % 256>>

(* A buffer from calloc: its bytes, and whether a write went past its end *)
HeapBuf(n) == [bytes |-> Zeros(n), oob |-> FALSE]

HeapPut(hb, off, bytes) ==
    [bytes |-> Put(hb.bytes, off, bytes),
     oob |-> hb.oob \/ off + Len(bytes) > Len(hb.bytes)]

(* copy_to_response_buf; to_buf is an offset into the response buffer, or NullPtr *)
copy_to_response_buf(hb, to_buf, to_len, from_buf) ==
    IF to_buf = NullPtr THEN hb
    ELSE HeapPut(hb, to_buf, SubSeq(from_buf, 1, Min(to_len, Len(from_buf))))

(* the local buf of each page handler; the handler returns its length *)
handle_rwrecovery_page(dev) == Put(Zeros(12), 0, <<1, 10>>)

handle_cache_page(dev) ==
    LET buf == Put(Zeros(20), 0, <<8, 18>>)
    IN  IF dev.write_cache_enabled THEN Put(buf, 2, <<4>>) ELSE buf

handle_control_page(dev) ==
    Put(Put(Put(Put(Zeros(12), 0, <<10, 10>>), 2, <<2>>), 5, <<64>>), 8, <<255, 255>>)

modesense_handlers ==
    << [page |-> 1, subpage |-> 0, get |-> "handle_rwrecovery_page"],
       [page |-> 8, subpage |-> 0, get |-> "handle_cache_page"],
       [page |-> 10, subpage |-> 0, get |-> "handle_control_page"] >>

HandlerGet(handler, dev) ==
    CASE handler.get = "handle_rwrecovery_page" -> handle_rwrecovery_page(dev)
      [] handler.get = "handle_cache_page" -> handle_cache_page(dev)
      [] handler.get = "handle_control_page" -> handle_control_page(dev)

(* handle_mode_sense on ms = [hb, buf, used_len, ran, ret]: buf is the offset *)
(* the next page goes to, or NullPtr; ran lists the handlers called so far.   *)
handle_mode_sense(dev, handler, ms, alloc_len, sense_ten) ==
    LET page == HandlerGet(handler, dev)
        len_ == Len(page)
        hb == copy_to_response_buf(ms.hb, ms.buf, alloc_len - ms.used_len, page)
        ran == Append(ms.ran, handler.page)
        buf == IF ms.buf # NullPtr /\ ms.used_len + len_ >= alloc_len THEN NullPtr ELSE ms.buf
    IN  IF ~sense_ten /\ ms.used_len + len_ >= 255
        THEN [ms EXCEPT !.hb = hb, !.ran = ran, !.ret = EINVAL]
        ELSE [hb |-> hb,
              buf |-> IF buf # NullPtr THEN buf + len_ ELSE NullPtr,
              used_len |-> ms.used_len + len_,
              ran |-> ran,
              ret |-> len_]

(* handle_long_lba_block_descriptor: the buffer after it; it returns 16 *)
handle_long_lba_block_descriptor(dev, hb, alloc_len) ==
    LET desc_len == 16
        hb1 == HeapPut(hb, 6, Be16(desc_len))
    IN  IF 8 + desc_len > alloc_len THEN hb1
        ELSE HeapPut(HeapPut(hb1, 8, dev.num_lbas), 8 + 12, dev.block_size)

(* handle_short_lba_block_descriptor: the buffer after it; it returns 8 *)
handle_short_lba_block_descriptor(dev, hb, alloc_len, sense_ten) ==
    LET desc_len == 8
        header_len == IF sense_ten THEN 8 ELSE 4
        hb1 == IF sense_ten THEN HeapPut(hb, 6, Be16(desc_len)) ELSE HeapPut(hb, 3, <<8>>)
    IN  IF header_len + desc_len > alloc_len THEN hb1
        ELSE HeapPut(HeapPut(hb1, header_len,
                             IF Below2_32(dev.num_lbas) THEN Low32(dev.num_lbas)
                             ELSE <<255, 255, 255, 255>>),
                     \* put_unaligned_be24(block_size, &buf[6]) after buf += header_len
                     header_len + 6, SubSeq(dev.block_size, 2, 4))

(* the handlers registered for (page_code, subpage_code) *)
Matching(page_code, subpage_code) ==
    {i \in DOMAIN modesense_handlers :
        /\ page_code = modesense_handlers[i].page
        /\ subpage_code = modesense_handlers[i].subpage}

FirstOf(S) == CHOOSE i \in S : \A j \in S : i <= j

(* what the emulators read from the CDB of the call *)
PageCode == Cdb(call.cdb, 2) % 64
SubpageCode == Cdb(call.cdb, 3)
AllocLen == tcmu_get_xfer_length(call.host, call.cdb)
SenseTen == Cdb(call.cdb, 0) = MODE_SENSE_10
HeaderLen == IF SenseTen THEN 8 ELSE 4

(* tcmu_emulate_mode_sense, step by step.  While it runs, result holds where it *)
(* is (at), its locals ms = [hb, buf, used_len, ran, ret] and the loop index i; *)
(* when it has returned, at = "done" and result holds the status, the handlers  *)
(* that ran and what became of the data-in buffer.                              *)
SenseDone(status, ran, out) ==
    [fn |-> "mode_sense", at |-> "done", status |-> status, ran |-> ran,
     iovec |-> out.iovec, mem |-> out.mem, copied |-> out.copied]

Untouched == [iovec |-> call.iovec, mem |-> call.mem, copied |-> 0]

At(fn, at) == result.fn = fn /\ result.at = at

(* entry: the allocation length, the header, calloc (which may fail) *)
MsEnter ==
    /\ call.fn = "mode_sense"
    /\ result = NoResult
    /\ \E calloc_ok \in BOOLEAN :
         result' =
            IF AllocLen = 0 THEN SenseDone("TCMU_STS_OK", <<>>, Untouched)
            ELSE IF HeaderLen > AllocLen THEN SenseDone("TCMU_STS_INVALID_CDB", <<>>, Untouched)
            ELSE IF ~calloc_ok THEN SenseDone("TCMU_STS_NO_RESOURCE", <<>>, Untouched)
            ELSE [fn |-> "mode_sense", at |-> "descriptor", i |-> 1,
                  ms |-> [hb |-> HeapBuf(AllocLen), buf |-> 0, used_len |-> HeaderLen,
                          ran |-> <<>>, ret |-> 0]]
    /\ UNCHANGED <<call, devvars>>

(* the block descriptor, unless DBD is set, and setup_pages.  A write past the *)
(* end of the buffer is undefined: the byte lands in unused room behind the    *)
(* buffer and the call goes on, or the process is killed.                      *)
MsDescriptor ==
    /\ At("mode_sense", "descriptor")
    /\ LET dbd == BitSet(Cdb(call.cdb, 1), 8)
           llba == SenseTen /\ BitSet(Cdb(call.cdb, 1), 16)
           hb == IF dbd THEN result.ms.hb
                 ELSE IF llba
                      THEN handle_long_lba_block_descriptor(call.dev, result.ms.hb, AllocLen)
                      ELSE handle_short_lba_block_descriptor(call.dev, result.ms.hb, AllocLen,
                                                             SenseTen)
           used_len == result.ms.used_len + (IF dbd THEN 0 ELSE IF llba THEN 16 ELSE 8)
       IN  \E killed \in {FALSE, hb.oob} :
              result' =
                 IF killed THEN SenseDone("killed", <<>>, Untouched)
                 ELSE [result EXCEPT
                         !.at = "pages",
                         !.ms = [hb |-> [hb EXCEPT !.oob = FALSE],
                                 buf |-> IF used_len < AllocLen THEN used_len ELSE NullPtr,
                                 used_len |-> used_len, ran |-> <<>>, ret |-> 0]]
    /\ UNCHANGED <<call, devvars>>

(* one turn of the loop over modesense_handlers *)
MsPage ==
    /\ At("mode_sense", "pages")
    /\ LET handler == modesense_handlers[result.i]
           ms == handle_mode_sense(call.dev, handler, result.ms, AllocLen, SenseTen)
           last == result.i = Len(modesense_handlers)
       IN  result' =
             IF PageCode = 63
             THEN IF ms.ret < 0 THEN SenseDone("TCMU_STS_INVALID_CDB", ms.ran, Untouched)
                  ELSE [result EXCEPT !.ms = ms, !.i = @ + 1,
                                      !.at = IF last THEN "finish" ELSE "pages"]
             ELSE IF PageCode = handler.page /\ SubpageCode = handler.subpage
                  THEN IF ms.ret <= 0 THEN SenseDone("TCMU_STS_INVALID_CDB", ms.ran, Untouched)
                       ELSE [result EXCEPT !.ms = ms, !.at = "finish"]
                  ELSE IF last
                       THEN SenseDone("TCMU_STS_INVALID_CDB", result.ms.ran, Untouched)
                       ELSE [result EXCEPT !.i = @ + 1]
    /\ UNCHANGED <<call, devvars>>

(* the mode data length, and the copy into the data-in buffer *)
MsFinish ==
    /\ At("mode_sense", "finish")
    /\ LET used_len == result.ms.used_len
           orig_buf == IF SenseTen
                       THEN Put(result.ms.hb.bytes, 0, Be16((used_len - 2) % 65536))
                       ELSE Put(result.ms.hb.bytes, 0, <<(used_len - 1) % 256>>)
       IN  result' = SenseDone("TCMU_STS_OK", result.ms.ran,
                               tcmu_memcpy_into_iovec(call.iovec, call.iov_cnt, call.mem,
                                                      orig_buf, AllocLen))
    /\ UNCHANGED <<call, devvars>>

tcmu_emulate_mode_sense == MsEnter \/ MsDescriptor \/ MsPage \/ MsFinish

InBufSize == 512
MODE_SELECT_10 == 85

(* a comparison that looks at the first byte only *)
DifferFirstByte(a, b, off, n) == a[off + 1] # b[off + 1]

(* memcmp(&a[off], &b[off], n) # 0 *)
Differ(a, b, off, n) == \E k \in off + 1..off + n : a[k] # b[k]

SelectTen == Cdb(call.cdb, 0) = MODE_SELECT_10
HdrLen == IF SelectTen THEN 8 ELSE 4

(* tcmu_emulate_mode_select, in two steps.  call.stack is what the 512 bytes of *)
(* in_buf hold when the function is entered: it never initialises them.         *)
SelectDone(status, iovec) ==
    [fn |-> "mode_select", at |-> "done", status |-> status, iovec |-> iovec]

(* entry: the parameter list length, and the copy of the data-out buffer into in_buf *)
MselRead ==
    /\ call.fn = "mode_select"
    /\ result = NoResult
    /\ LET in == tcmu_memcpy_from_iovec(call.stack, InBufSize, call.iovec, call.iov_cnt,
                                        call.mem)
       IN  result' =
             IF AllocLen = 0 THEN SelectDone("TCMU_STS_OK", call.iovec)
             ELSE IF in.copied >= InBufSize
                  THEN SelectDone("TCMU_STS_INVALID_PARAM_LIST_LEN", in.iovec)
             ELSE [fn |-> "mode_select", at |-> "check", in_buf |-> in.dest,
                   iovec |-> in.iovec]
    /\ UNCHANGED <<call, devvars>>

(* the PF and SP bits, the handler, the lengths and the comparison *)
MselCheck ==
    /\ At("mode_select", "check")
    /\ LET found == Matching(PageCode, SubpageCode)
           page == HandlerGet(modesense_handlers[FirstOf(found)], call.dev)
           len_ == Len(page)
           buf == Put(Zeros(InBufSize), HdrLen, SubSeq(page, 1, Min(InBufSize - HdrLen, len_)))
           status ==
             IF ~BitSet(Cdb(call.cdb, 1), 16) \/ BitSet(Cdb(call.cdb, 1), 1)
             THEN "TCMU_STS_INVALID_CDB"
             ELSE IF found = {} THEN "TCMU_STS_INVALID_CDB"
             ELSE IF len_ <= 0 THEN "TCMU_STS_INVALID_CDB"
             ELSE IF ~SelectTen /\ HdrLen + len_ >= 255 THEN "TCMU_STS_INVALID_CDB"
             ELSE IF AllocLen < HdrLen + len_ THEN "TCMU_STS_INVALID_PARAM_LIST_LEN"
             ELSE IF Differ(buf, result.in_buf, HdrLen, len_)
                  THEN "TCMU_STS_INVALID_PARAM_LIST"
             ELSE "TCMU_STS_OK"
       IN  result' = SelectDone(status, result.iovec)
    /\ UNCHANGED <<call, devvars>>

tcmu_emulate_mode_select == MselRead \/ MselCheck

(* The calls.  A CDB of the 6 or 10 byte form with the given transfer length *)
MakeCdb(op, b1, page, subpage, len) ==
    IF op \div 32 = 0
    THEN <<op, b1, page, subpage, len % 256, 0>>
    ELSE <<op, b1, page, subpage, 0, 0, 0>> \o Be16(len) \o <<0>>

(* a little-endian host with five blocks of 512 bytes and no write cache, a *)
(* big-endian one with 2^32 + 1 blocks and a write cache                    *)
Machines ==
    { [host |-> "le",
       dev |-> [num_lbas |-> <<0, 0, 0, 0, 0, 0, 0, 5>>, block_size |-> <<0, 0, 2, 0>>,
                write_cache_enabled |-> FALSE]],
      [host |-> "be",
       dev |-> [num_lbas |-> <<0, 0, 0, 1, 0, 0, 0, 1>>, block_size |-> <<0, 1, 2, 3>>,
                write_cache_enabled |-> TRUE]] }

(* cdb[2] and cdb[3]: all pages, a page, the page control bits, what is not registered *)
SensePages == { <<63, 0>>, <<127, 1>>, <<8, 0>>, <<72, 0>>, <<10, 1>>, <<2, 0>> }

(* a data-in buffer of the allocation length, or a shorter one *)
DataLen(alloc_len, kind) == IF kind = "exact" THEN alloc_len ELSE alloc_len \div 2

(* a data buffer of n bytes in two segments around an empty one *)
SplitLens(n) == IF n > 8 THEN <<8, 0, n - 8>> ELSE <<n>>

SenseCalls ==
    { [fn |-> "mode_sense", host |-> m.host, dev |-> m.dev,
       cdb |-> MakeCdb(op, b1, pg[1], pg[2], alloc_len),
       iovec |-> Layout(SplitLens(DataLen(alloc_len, kind))),
       iov_cnt |-> Len(SplitLens(DataLen(alloc_len, kind))),
       mem |-> [a \in 1..MemSize(SplitLens(DataLen(alloc_len, kind))) |-> Fill]] :
      m \in Machines, op \in {26, MODE_SENSE_10}, b1 \in {0, 8, 16, 24}, pg \in SensePages,
      alloc_len \in 0..MaxAlloc, kind \in {"exact", "shorter"} }

(* the memory in which the segments of the given lengths hold data, in order *)
MemWith(lens, data) ==
    LET iovec == Layout(lens)
    IN  [a \in 1..MemSize(lens) |->
          IF \E i \in DOMAIN iovec :
                a >= iovec[i].iov_base /\ a < iovec[i].iov_base + iovec[i].iov_len
          THEN LET i == CHOOSE j \in DOMAIN iovec :
                           a >= iovec[j].iov_base /\ a < iovec[j].iov_base + iovec[j].iov_len
               IN  data[tcmu_iovec_length(iovec, i - 1) + (a - iovec[i].iov_base) + 1]
          ELSE Fill]

(* the page a MODE SELECT for pg would have to carry: what its handler generates, *)
(* or twelve zero bytes for a page that has no handler                            *)
SelectPage(dev, pg) ==
    IF Matching(pg[1] % 64, pg[2]) = {} THEN Zeros(12)
    ELSE HandlerGet(modesense_handlers[FirstOf(Matching(pg[1] % 64, pg[2]))], dev)

(* a parameter list of n bytes: a header of hdr bytes, the page, padding; the byte *)
(* at offset flip, if any, is made to differ                                       *)
ParamList(n, hdr, page, flip) ==
    [k \in 1..n |->
        LET b == IF k <= hdr THEN 7
                 ELSE IF k <= hdr + Len(page) THEN page[k - hdr]
                 ELSE 9
        IN  IF k - 1 = flip THEN (b + 1) % 256 ELSE b]

(* where a byte is changed: nowhere, in the header, in the first or the last byte *)
(* of the page, or right after the page                                           *)
FlipAt(where, hdr, page) ==
    CASE where = "none" -> -1
      [] where = "header" -> 0
      [] where = "first" -> hdr
      [] where = "last" -> hdr + Len(page) - 1
      [] where = "after" -> hdr + Len(page)

(* parameter list lengths: none, around header + page for each form and page, more *)
ParamLens == {0, 15, 16, 19, 20, 23, 24, 27, 28, 40}

(* data-out buffers shorter than a header, shorter than any list, longer than all *)
DataLens == {0, 10, 40}

(* data-out buffers around the size of in_buf *)
BigDataLens == {511, 512, 600}

SelectHdr(op) == IF op = MODE_SELECT_10 THEN 8 ELSE 4

SelectCall(m, op, b1, pg, plen, dlen, stale, where) ==
    [fn |-> "mode_select", host |-> m.host, dev |-> m.dev,
     cdb |-> MakeCdb(op, b1, pg[1], pg[2], plen),
     \* in_buf starts as zeros, or as the bytes a matching list left on the stack
     stack |-> IF stale THEN ParamList(InBufSize, SelectHdr(op), SelectPage(m.dev, pg), -1)
               ELSE Zeros(InBufSize),
     iovec |-> Layout(SplitLens(dlen)),
     iov_cnt |-> Len(SplitLens(dlen)),
     mem |-> MemWith(SplitLens(dlen),
                     ParamList(dlen, SelectHdr(op), SelectPage(m.dev, pg),
                               FlipAt(where, SelectHdr(op), SelectPage(m.dev, pg))))]

SelectCalls ==
    \* registered pages with PF set: the lengths and the comparison
    { SelectCall(m, op, 16, pg, plen, dlen, stale, where) :
      m \in Machines, op \in {21, MODE_SELECT_10}, pg \in {<<1, 0>>, <<8, 0>>, <<74, 0>>},
      plen \in ParamLens, dlen \in DataLens, stale \in BOOLEAN,
      where \in {"none", "header", "first", "last", "after"} }
    \cup
    \* PF clear, SP set, pages that are not registered
    { SelectCall(m, op, b1, pg, plen, 40, FALSE, where) :
      m \in Machines, op \in {21, MODE_SELECT_10}, b1 \in {16, 0, 17, 1},
      pg \in {<<8, 0>>, <<10, 1>>, <<2, 0>>, <<63, 0>>}, plen \in {0, 10, 40},
      where \in {"none", "first"} }
    \cup
    \* data-out buffers that fill in_buf
    { SelectCall(m, MODE_SELECT_10, 16, <<8, 0>>, plen, dlen, FALSE, where) :
      m \in Machines, plen \in {0, 28, 600}, dlen \in BigDataLens,
      where \in {"none", "first"} }

SenseInit ==
    /\ DevInit
    /\ result = NoResult
    /\ call \in SenseCalls

SpecSense == SenseInit /\ [][tcmu_emulate_mode_sense]_vars

SelectInit ==
    /\ DevInit
    /\ result = NoResult
    /\ call \in SelectCalls

SpecSelect == SelectInit /\ [][tcmu_emulate_mode_select]_vars

(* the length of the whole MODE SENSE response for all pages: header, block *)
(* descriptor unless DBD is set, and the three pages                         *)
FullLen ==
    HeaderLen
    + (IF BitSet(Cdb(call.cdb, 1), 8) THEN 0
       ELSE IF SenseTen /\ BitSet(Cdb(call.cdb, 1), 16) THEN 16 ELSE 8)
    + 12 + 20 + 12

(* the mode data length the initiator finds, as far as its buffer holds the field *)
ModeDataLengthIs(n) ==
    IF SenseTen
    THEN Len(DataIn) >= 2 => SubSeq(DataIn, 1, 2) = Be16(n)
    ELSE Len(DataIn) >= 1 => DataIn[1] = n

(* C8: MODE SENSE for page code 0x3f with an allocation length that is not zero  *)
(* and shorter than the full response returns OK, with the mode data length the  *)
(* untruncated total minus the size of the length field (1 for the 6-byte form,  *)
(* 2 for the 10-byte form), copies at most the allocation length into the        *)
(* data-in buffer, and has run every registered handler.  Stated for allocation  *)
(* lengths that hold the header, and for a calloc that succeeds.                 *)
C8_ModeSenseTruncated ==
    (/\ At("mode_sense", "done")
     /\ PageCode = 63
     /\ AllocLen >= HeaderLen
     /\ AllocLen < FullLen
     /\ result.status # "TCMU_STS_NO_RESOURCE")
    => /\ result.status = "TCMU_STS_OK"
       /\ ModeDataLengthIs(FullLen - (IF SenseTen THEN 2 ELSE 1))
       /\ result.copied <= AllocLen
       /\ result.ran = <<1, 8, 10>>

(* what the initiator supplies in its data-out buffer *)
DataOut == IovBytes(call.iovec, call.iov_cnt, call.mem)

(* the CDB asks for page format without saving, and for a registered page *)
SelectAccepted ==
    /\ BitSet(Cdb(call.cdb, 1), 16)
    /\ ~BitSet(Cdb(call.cdb, 1), 1)
    /\ Matching(PageCode, SubpageCode) # {}

(* the body the handler of the selected page generates now *)
CurrentPage == HandlerGet(modesense_handlers[FirstOf(Matching(PageCode, SubpageCode))], call.dev)

(* the data-out buffer holds a header and a page, and the page is the current one *)
BodyIdentical ==
    /\ Len(DataOut) >= HdrLen + Len(CurrentPage)
    /\ SubSeq(DataOut, HdrLen + 1, HdrLen + Len(CurrentPage)) = CurrentPage

(* C9 as first stated: MODE SELECT returns OK exactly when the supplied page body *)
(* is byte-identical to the one the registered handler generates; a differing     *)
(* byte gives invalid-parameter-list, an unregistered page, PF clear or SP set    *)
(* invalid-CDB, a parameter list length below header plus page                    *)
(* invalid-parameter-list-length.                                                 *)
C9_Original ==
    At("mode_select", "done") =>
       /\ result.status = "TCMU_STS_OK" <=>
             (SelectAccepted /\ AllocLen >= HdrLen + Len(CurrentPage) /\ BodyIdentical)
       /\ ~SelectAccepted => result.status = "TCMU_STS_INVALID_CDB"
       /\ (SelectAccepted /\ AllocLen < HdrLen + Len(CurrentPage))
             => result.status = "TCMU_STS_INVALID_PARAM_LIST_LEN"
       /\ (SelectAccepted /\ AllocLen >= HdrLen + Len(CurrentPage) /\ ~BodyIdentical)
             => result.status = "TCMU_STS_INVALID_PARAM_LIST"

(* C9: a MODE SELECT with parameter list length zero returns OK, and one whose    *)
(* data-out buffer holds 512 bytes or more invalid-parameter-list-length, before  *)
(* any other test.  Otherwise an unregistered page, PF clear or SP set gives      *)
(* invalid-CDB; else a parameter list length below header plus page gives         *)
(* invalid-parameter-list-length; else, the data-out buffer holding the header    *)
(* and the page, the result is OK exactly when the supplied page is byte-         *)
(* identical to the generated one and invalid-parameter-list for any differing    *)
(* byte.  A data-out buffer that ends before the page ends gives one of the two.  *)
C9_ModeSelect ==
    At("mode_select", "done") =>
       IF AllocLen = 0 THEN result.status = "TCMU_STS_OK"
       ELSE IF Len(DataOut) >= InBufSize
            THEN result.status = "TCMU_STS_INVALID_PARAM_LIST_LEN"
       ELSE IF ~SelectAccepted THEN result.status = "TCMU_STS_INVALID_CDB"
       ELSE IF AllocLen < HdrLen + Len(CurrentPage)
            THEN result.status = "TCMU_STS_INVALID_PARAM_LIST_LEN"
       ELSE IF Len(DataOut) >= HdrLen + Len(CurrentPage)
            THEN result.status = IF BodyIdentical THEN "TCMU_STS_OK"
                                 ELSE "TCMU_STS_INVALID_PARAM_LIST"
       ELSE result.status \in {"TCMU_STS_OK", "TCMU_STS_INVALID_PARAM_LIST"}

(* a caching page whose last byte differs, in a list long enough, is refused *)
C9_Witness ==
    /\ At("mode_select", "done")
    /\ call.cdb = MakeCdb(21, 16, 8, 0, 24)
    /\ Len(DataOut) = 40
    /\ SubSeq(DataOut, 5, 23) = SubSeq(CurrentPage, 1, 19)
    /\ DataOut[24] # CurrentPage[20]
    /\ result.status = "TCMU_STS_INVALID_PARAM_LIST"

====
